---- MODULE Spec2Model ----
(***************************************************************************)
(* A model of ruckig's trajectory layer (include/ruckig/trajectory.hpp),   *)
(* its geometric path (path.hpp, segment.hpp) and the inputs they consume  *)
(* (input_parameter.hpp).                                                  *)
(*                                                                         *)
(* Numbers.  The program computes in double; the model computes exactly in *)
(* integers on a grid that is closed under Profile::integrate:             *)
(*     time          whole seconds                                         *)
(*     jerk, accel.  whole units                                           *)
(*     velocity      half units        (a stored v means v/2)              *)
(*     position      twelfth units     (a stored p means p/12)             *)
(* so that a' = a + j t, v' = v + a t + j t^2/2 and                        *)
(* p' = p + v t + a t^2/2 + j t^3/6 have integer images.  A comparison    *)
(* "|x - y| < eps" of the program is equality on this grid.                *)
(***************************************************************************)
EXTENDS Integers, Sequences, FiniteSets, TLC

\* template<size_t DOFs>: the model instantiates the templates with two axes.
DOFs == 2
Dofs == 0 .. (DOFs - 1)

\* Bounds of the candidate jerk schedules the Step1/Step2 model searches.
MaxK == 2
MaxC == 3
\* Number of calculate calls in one behaviour.
MaxCalls == 2

Max(a, b) == IF a >= b THEN a ELSE b
Abs(x) == IF x < 0 THEN -x ELSE x

Arr2(x0, x1) == [i \in 0 .. 1 |-> IF i = 0 THEN x0 ELSE x1]
Arr7(x0, x1, x2, x3, x4, x5, x6) ==
    [i \in 0 .. 6 |-> <<x0, x1, x2, x3, x4, x5, x6>>[i + 1]]

\* std::optional<double>
Nullopt == [has |-> FALSE, val |-> 0]
Some(x) == [has |-> TRUE, val |-> x]
ValueOr(o, d) == IF o.has THEN o.val ELSE d

(***************************************************************************)
(* Profile (profile.hpp is not among the sources; modelled from the spec,  *)
(* section 4.1 and the data model of section 3).                           *)
(***************************************************************************)

\* Profile::integrate(t, p0, v0, a0, j) on the grid above.
Integrate(t, p0, v0, a0, j) ==
    [p |-> p0 + 6 * v0 * t + 6 * a0 * t * t + 2 * j * t * t * t,
     v |-> v0 + 2 * a0 * t + j * t * t,
     a |-> a0 + j * t]

\* A default-constructed Profile: no brake prelude, nothing computed.
DefaultProfile ==
    [t |-> [i \in 0 .. 6 |-> 0], j |-> [i \in 0 .. 6 |-> 0],
     t_sum |-> [i \in 0 .. 6 |-> 0],
     p |-> [i \in 0 .. 6 |-> 0], v |-> [i \in 0 .. 6 |-> 0],
     a |-> [i \in 0 .. 6 |-> 0],
     pf |-> 0, vf |-> 0, af |-> 0,
     t_brake |-> Nullopt,
     t_brakes |-> Arr2(0, 0), j_brakes |-> Arr2(0, 0),
     p_brakes |-> Arr2(0, 0), v_brakes |-> Arr2(0, 0),
     a_brakes |-> Arr2(0, 0)]

\* Profile::state_at_time(t): the phase is found by upper bound on t_sum, the
\* preceding cumulative time is subtracted and the phase is integrated from
\* its stored start state.  Past the last phase the last phase is continued.
UpperBound7(ts, t) ==
    IF \E i \in 0 .. 6 : ts[i] > t
    THEN CHOOSE i \in 0 .. 6 : ts[i] > t /\ \A k \in 0 .. 6 : ts[k] > t => i <= k
    ELSE 7

StateAtTime(prof, t) ==
    LET ub == UpperBound7(prof.t_sum, t)
        i == IF ub > 6 THEN 6 ELSE ub
        before == IF i = 0 THEN 0 ELSE prof.t_sum[i - 1]
    IN  Integrate(t - before, prof.p[i], prof.v[i], prof.a[i], prof.j[i])

(***************************************************************************)
(* Step1 / Step2 (position.hpp is not among the sources; modelled from the *)
(* spec, sections 4.3 and 4.4).  The candidates are the seven-phase        *)
(* schedules of the canonical pattern (+J1, 0, -J1, 0, -J2, 0, +J2) with   *)
(* whole phase durations; a candidate is feasible when integrating it from *)
(* the start state ends in the target state and every phase boundary is    *)
(* inside the velocity and acceleration limits.                            *)
(***************************************************************************)
Schedules(jMax) ==
    { [t |-> Arr7(k1, 0, k1, c, k2, 0, k2), j |-> Arr7(J1, 0, -J1, 0, -J2, 0, J2)] :
        k1 \in 0 .. MaxK, c \in 0 .. MaxC, k2 \in 0 .. MaxK,
        J1 \in (-jMax) .. jMax, J2 \in (-jMax) .. jMax }

RECURSIVE PhaseStart(_, _, _)
PhaseStart(start, s, i) ==
    IF i = 0 THEN start
    ELSE LET q == PhaseStart(start, s, i - 1)
         IN  Integrate(s.t[i - 1], q.p, q.v, q.a, s.j[i - 1])

RECURSIVE TSum(_, _)
TSum(t, i) == IF i = 0 THEN t[0] ELSE TSum(t, i - 1) + t[i]

SchedDuration(s) == TSum(s.t, 6)

\* A schedule is canonical when a phase of zero length carries zero jerk.
Canonical(s) == \A i \in 0 .. 6 : s.t[i] = 0 => s.j[i] = 0

Feasible(s, start, target, vMax, vMin, aMax, aMin) ==
    /\ Canonical(s)
    /\ PhaseStart(start, s, 7) = target
    /\ \A i \in 0 .. 7 :
          LET q == PhaseStart(start, s, i)
          IN  q.v <= vMax /\ q.v >= vMin /\ q.a <= aMax /\ q.a >= aMin

FeasibleSchedules(start, target, vMax, vMin, aMax, aMin, jMax) ==
    { s \in Schedules(jMax) : Feasible(s, start, target, vMax, vMin, aMax, aMin) }

\* The profile a solver writes: the schedule, its cached phase-start states
\* and the target; the brake prelude of the profile passed in is kept.
FillStates(pin, s, q, target) ==
    [pin EXCEPT
        !.t = s.t, !.j = s.j,
        !.t_sum = Arr7(TSum(s.t, 0), TSum(s.t, 1), TSum(s.t, 2), TSum(s.t, 3),
                       TSum(s.t, 4), TSum(s.t, 5), TSum(s.t, 6)),
        !.p = Arr7(q[1].p, q[2].p, q[3].p, q[4].p, q[5].p, q[6].p, q[7].p),
        !.v = Arr7(q[1].v, q[2].v, q[3].v, q[4].v, q[5].v, q[6].v, q[7].v),
        !.a = Arr7(q[1].a, q[2].a, q[3].a, q[4].a, q[5].a, q[6].a, q[7].a),
        !.pf = target.p, !.vf = target.v, !.af = target.a]

FillProfile(pin, s, start, target) ==
    FillStates(pin, s,
               <<PhaseStart(start, s, 0), PhaseStart(start, s, 1), PhaseStart(start, s, 2),
                 PhaseStart(start, s, 3), PhaseStart(start, s, 4), PhaseStart(start, s, 5),
                 PhaseStart(start, s, 6)>>,
               target)

NoInterval == [has |-> FALSE, left |-> 0, right |-> 0, profile |-> DefaultProfile]

\* A default-constructed Block.
DefaultBlock == [t_min |-> 0, p_min |-> DefaultProfile, a |-> NoInterval, b |-> NoInterval]

\* The feasible schedules of one axis by duration: for every duration that
\* has a feasible schedule, one such schedule.
RECURSIVE ByDuration(_, _)
ByDuration(F, D) ==
    IF D = {} THEN <<>>
    ELSE LET T == CHOOSE m \in D : \A n \in D : m <= n
         IN  (T :> CHOOSE s \in F : SchedDuration(s) = T) @@ ByDuration(F, D \ {T})

SolveAxis(key) ==
    LET F == FeasibleSchedules(key.start, key.target, key.vMax, key.vMin,
                               key.aMax, key.aMin, key.jMax)
    IN  ByDuration(F, { SchedDuration(s) : s \in F })

(***************************************************************************)
(* Brake (brake.hpp is not among the sources; modelled from the spec,      *)
(* section 4.2): at most two constant-jerk segments.  An acceleration      *)
(* outside its limits is first brought back with maximal jerk; a velocity  *)
(* outside its limits (at zero acceleration) is capped by a segment of     *)
(* maximal jerk and a second one that brings the acceleration back to zero *)
(* on the limit; otherwise both segments are empty.  When the acceleration *)
(* is on its limit already and bringing it back to zero ends inside the    *)
(* velocity limits, the capping segment is empty and only the second one   *)
(* has a duration.                                                         *)
(***************************************************************************)
CeilDiv(a, b) == (a + b - 1) \div b

\* The least n >= 1 with 2 * jMax * n * n >= excess (velocities in halves).
BrakeSteps(excess, jMax) ==
    CHOOSE n \in 1 .. excess :
        /\ 2 * jMax * n * n >= excess
        /\ \A m \in 1 .. excess : 2 * jMax * m * m >= excess => n <= m

\* Brake::get_position_brake_trajectory(v0, a0, vMax, vMin, aMax, aMin, jMax, t_brakes, j_brakes)
PositionBrake(v0, a0, vMax, vMin, aMax, aMin, jMax) ==
    IF a0 > aMax
    THEN [t_brakes |-> Arr2(CeilDiv(a0 - aMax, jMax), 0), j_brakes |-> Arr2(-jMax, 0)]
    ELSE IF a0 < aMin
    THEN [t_brakes |-> Arr2(CeilDiv(aMin - a0, jMax), 0), j_brakes |-> Arr2(jMax, 0)]
    ELSE IF v0 > vMax /\ a0 = aMin /\ a0 < 0
            /\ v0 + 2 * a0 * CeilDiv(-a0, jMax) + jMax * CeilDiv(-a0, jMax) * CeilDiv(-a0, jMax) <= vMax
    THEN [t_brakes |-> Arr2(0, CeilDiv(-a0, jMax)), j_brakes |-> Arr2(-jMax, jMax)]
    ELSE IF v0 < vMin /\ a0 = aMax /\ a0 > 0
            /\ v0 + 2 * a0 * CeilDiv(a0, jMax) - jMax * CeilDiv(a0, jMax) * CeilDiv(a0, jMax) >= vMin
    THEN [t_brakes |-> Arr2(0, CeilDiv(a0, jMax)), j_brakes |-> Arr2(jMax, -jMax)]
    ELSE IF a0 = 0 /\ v0 > vMax
    THEN LET n == BrakeSteps(v0 - vMax, jMax)
         IN  [t_brakes |-> Arr2(n, n), j_brakes |-> Arr2(-jMax, jMax)]
    ELSE IF a0 = 0 /\ v0 < vMin
    THEN LET n == BrakeSteps(vMin - v0, jMax)
         IN  [t_brakes |-> Arr2(n, n), j_brakes |-> Arr2(jMax, -jMax)]
    ELSE [t_brakes |-> Arr2(0, 0), j_brakes |-> Arr2(0, 0)]

(***************************************************************************)
(* InputParameter (input_parameter.hpp).  The model draws every axis from  *)
(* a small catalogue of motions; all of them use Interface::Position and   *)
(* leave min_velocity and min_acceleration unset.                          *)
(***************************************************************************)
Time == "Time"
TimeIfNecessary == "TimeIfNecessary"
None == "None"
Continuous == "Continuous"
Discrete == "Discrete"

Working == "Working"
ErrorExecutionTimeCalculation == "ErrorExecutionTimeCalculation"
ErrorSynchronizationCalculation == "ErrorSynchronizationCalculation"
ErrorTrajectoryDuration == "ErrorTrajectoryDuration"

AxisCase(cp, cv, ca, tp, tv, ta, vmax, amax, jmax) ==
    [cp |-> cp, cv |-> cv, ca |-> ca, tp |-> tp, tv |-> tv, ta |-> ta,
     vmax |-> vmax, amax |-> amax, jmax |-> jmax]

\* rest to rest over 2 (limits 1, 1, 1): 4 s, and no other duration
RestShort == AxisCase(0, 0, 0, 24, 0, 0, 2, 1, 1)
\* rest to rest over 4 (limits 2, 2, 2): 4 s, or 6 s with half the jerk
RestLong == AxisCase(0, 0, 0, 48, 0, 0, 4, 2, 2)
\* rest to cruising at velocity 1 after 1: 2 s, or later after waiting
ToCruise == AxisCase(0, 0, 0, 12, 2, 0, 2, 1, 1)
\* cruising at velocity 1 to rest after 1: 2 s, or 3 s, 4 s resting at the end
FromCruise == AxisCase(12, 2, 0, 24, 0, 0, 2, 1, 1)
\* velocity 2 above max_velocity 1: a brake prelude of 1 s + 1 s, then 2 s
TooFast == AxisCase(0, 4, 0, 48, 0, 0, 2, 1, 1)
\* target velocity 2 above max_velocity 1: Step1 finds no profile
Unreachable == AxisCase(0, 0, 0, 24, 4, 0, 2, 1, 1)

\* velocity 1.5 above max_velocity 1 at the acceleration limit -1: the brake
\* prelude has an empty first segment and a second one of 1 s, then 2 s
Decelerating == AxisCase(0, 3, -1, 26, 0, 0, 2, 1, 1)

AxisCases == {RestShort, RestLong, ToCruise, FromCruise, TooFast, Unreachable}

\* The axes of the path trajectories: an axis the path does not move, and the
\* moved axis of a path that starts at 1 and of one that starts at 0 (the
\* latter is RestShort, or Unreachable with a final velocity of 2).
Held == AxisCase(0, 0, 0, 0, 0, 0, 2, 1, 1)
Shifted == AxisCase(12, 0, 0, 36, 0, 0, 2, 1, 1)
ShiftedUnreachable == AxisCase(12, 0, 0, 36, 4, 0, 2, 1, 1)
TabulatedCases == AxisCases \cup {Held, Shifted, ShiftedUnreachable}

MkInput(sync, disc, cases, enabled, mindur) ==
    [synchronization |-> sync, duration_discretization |-> disc,
     current_position |-> [d \in Dofs |-> cases[d].cp],
     current_velocity |-> [d \in Dofs |-> cases[d].cv],
     current_acceleration |-> [d \in Dofs |-> cases[d].ca],
     target_position |-> [d \in Dofs |-> cases[d].tp],
     target_velocity |-> [d \in Dofs |-> cases[d].tv],
     target_acceleration |-> [d \in Dofs |-> cases[d].ta],
     max_velocity |-> [d \in Dofs |-> cases[d].vmax],
     max_acceleration |-> [d \in Dofs |-> cases[d].amax],
     max_jerk |-> [d \in Dofs |-> cases[d].jmax],
     min_velocity |-> [has |-> FALSE, val |-> [d \in Dofs |-> 0]],
     min_acceleration |-> [has |-> FALSE, val |-> [d \in Dofs |-> 0]],
     enabled |-> enabled,
     minimum_duration |-> mindur]

\* The solver arguments of an axis case: the start state is the current state
\* integrated through the brake prelude.
SolverKey(start, target, vMax, vMin, aMax, aMin, jMax) ==
    [start |-> start, target |-> target, vMax |-> vMax, vMin |-> vMin,
     aMax |-> aMax, aMin |-> aMin, jMax |-> jMax]

State(p, v, a) == [p |-> p, v |-> v, a |-> a]

AfterBrake(s, b) ==
    LET s1 == Integrate(b.t_brakes[0], s.p, s.v, s.a, b.j_brakes[0])
    IN  Integrate(b.t_brakes[1], s1.p, s1.v, s1.a, b.j_brakes[1])

CaseKey(c) ==
    SolverKey(AfterBrake(State(c.cp, c.cv, c.ca),
                         PositionBrake(c.cv, c.ca, c.vmax, -c.vmax, c.amax, -c.amax, c.jmax)),
              State(c.tp, c.tv, c.ta), c.vmax, -c.vmax, c.amax, -c.amax, c.jmax)

\* SolveAxis tabulated over the catalogue, so that it is evaluated once.
RECURSIVE Tabulate(_)
Tabulate(K) ==
    IF K = {} THEN <<>>
    ELSE LET k == CHOOSE c \in K : TRUE
         IN  (k :> SolveAxis(k)) @@ Tabulate(K \ {k})

SolverTable == Tabulate({ CaseKey(c) : c \in TabulatedCases })

Solved(key) == IF key \in DOMAIN SolverTable THEN SolverTable[key] ELSE SolveAxis(key)

MinOf(S) == CHOOSE m \in S : \A n \in S : m <= n

\* The block Step1 writes: the fastest schedule and, when there is a slower
\* one, the first of them as the alternate a; the durations between the two
\* are blocked.
Position1Block(pin, start, target, byT, tmin, later) ==
    [t_min |-> tmin,
     p_min |-> FillProfile(pin, byT[tmin], start, target),
     a |-> IF later = {} THEN NoInterval
           ELSE [has |-> TRUE, left |-> tmin, right |-> MinOf(later),
                 profile |-> FillProfile(pin, byT[MinOf(later)], start, target)],
     b |-> NoInterval]

Position1Found(block) == [found |-> TRUE, profile |-> block.p_min, block |-> block]

Position1Among(pin, start, target, byT, D) ==
    IF D = {}
    THEN [found |-> FALSE, profile |-> pin, block |-> DefaultBlock]
    ELSE Position1Found(Position1Block(pin, start, target, byT, MinOf(D),
                                       { T \in D : T > MinOf(D) }))

Position1Solved(pin, start, target, byT) ==
    Position1Among(pin, start, target, byT, DOMAIN byT)

\* Position1::get_profile(profile, block): fills the profile with the
\* time-optimal schedule and the block with t_min, p_min and the alternate.
Position1(pin, p0, v0, a0, pf, vf, af, vMax, vMin, aMax, aMin, jMax) ==
    Position1Solved(pin, State(p0, v0, a0), State(pf, vf, af),
                    Solved(SolverKey(State(p0, v0, a0), State(pf, vf, af),
                                     vMax, vMin, aMax, aMin, jMax)))

Position2Solved(pin, tf, start, target, byT) ==
    IF tf \in DOMAIN byT
    THEN [found |-> TRUE, profile |-> FillProfile(pin, byT[tf], start, target)]
    ELSE [found |-> FALSE, profile |-> pin]

\* Position2::get_profile(profile): a feasible schedule of exactly tf.
Position2(pin, tf, p0, v0, a0, pf, vf, af, vMax, vMin, aMax, aMin, jMax) ==
    Position2Solved(pin, tf, State(p0, v0, a0), State(pf, vf, af),
                    Solved(SolverKey(State(p0, v0, a0), State(pf, vf, af),
                                     vMax, vMin, aMax, aMin, jMax)))

(***************************************************************************)
(* Block::synchronize (block.hpp is not among the sources; modelled from   *)
(* the spec, section 4.5).                                                 *)
(***************************************************************************)
IsBlocked(block, t) ==
    \/ t < block.t_min
    \/ block.a.has /\ block.a.left < t /\ t < block.a.right
    \/ block.b.has /\ block.b.left < t /\ t < block.b.right

RECURSIVE MaxTMin(_, _)
MaxTMin(blocks, n) ==
    IF n = 0 THEN 0 ELSE Max(blocks[n - 1].t_min, MaxTMin(blocks, n - 1))

\* synchronize(blocks, t_min, t_sync, limiting_dof, profiles, discrete_duration, delta_time)
Synchronize(blocks, t_min, discrete_duration, delta_time) ==
    LET t0 == Max(MaxTMin(blocks, DOFs), ValueOr(t_min, 0))
        t_sync == IF discrete_duration THEN CeilDiv(t0, delta_time) * delta_time ELSE t0
        L == { d \in Dofs : blocks[d].t_min = t_sync }
    IN  [found |-> \A d \in Dofs : ~IsBlocked(blocks[d], t_sync),
         t_sync |-> t_sync,
         limiting_dof |-> IF L = {} THEN -1 ELSE MinOf(L)]

(***************************************************************************)
(* ProfileTrajectory::calculate (trajectory.hpp).                          *)
(***************************************************************************)

\* 7.6e3 of the maximum-duration guard
MaxDurationGuard == 7600

\* The loop "for (i = 0; p.t_brakes[i] > 0 && i < 2; ++i)" that integrates the
\* brake prelude: it stores each segment's start state and advances the start
\* state of the main profile.  It ends at the first segment of no duration.
\* (With both segments positive the condition reads t_brakes[2] before it
\* tests i < 2; whatever is read there, the loop ends.)
RECURSIVE IntegrateBrake(_, _, _)
IntegrateBrake(i, p, s) ==
    IF i < 2 /\ p.t_brakes[i] > 0
    THEN IntegrateBrake(i + 1,
                        [p EXCEPT !.p_brakes[i] = s.p, !.v_brakes[i] = s.v,
                                  !.a_brakes[i] = s.a],
                        Integrate(p.t_brakes[i], s.p, s.v, s.a, p.j_brakes[i]))
    ELSE [p |-> p, s |-> s]

\* inp_min_velocity[dof] and inp_min_acceleration[dof]
MinVelocity(inp, dof) ==
    IF inp.min_velocity.has THEN inp.min_velocity.val[dof] ELSE -inp.max_velocity[dof]

MinAcceleration(inp, dof) ==
    IF inp.min_acceleration.has THEN inp.min_acceleration.val[dof]
    ELSE -inp.max_acceleration[dof]

\* The brake prelude written into the profile of an enabled axis.
WithBrake(pin, brake) ==
    [pin EXCEPT !.t_brakes = brake.t_brakes, !.j_brakes = brake.j_brakes,
                !.t_brake = Some(brake.t_brakes[0] + brake.t_brakes[1])]

BrakeAxis(inp, dof, pin) ==
    IntegrateBrake(0,
                   WithBrake(pin, PositionBrake(inp.current_velocity[dof],
                                                inp.current_acceleration[dof],
                                                inp.max_velocity[dof], MinVelocity(inp, dof),
                                                inp.max_acceleration[dof],
                                                MinAcceleration(inp, dof), inp.max_jerk[dof])),
                   State(inp.current_position[dof], inp.current_velocity[dof],
                         inp.current_acceleration[dof]))

\* Step1 of an enabled axis from the state ib.s after the brake prelude.
Step1Axis(inp, dof, ib) ==
    [step1 |-> Position1(ib.p, ib.s.p, ib.s.v, ib.s.a,
                         inp.target_position[dof], inp.target_velocity[dof],
                         inp.target_acceleration[dof],
                         inp.max_velocity[dof], MinVelocity(inp, dof),
                         inp.max_acceleration[dof], MinAcceleration(inp, dof),
                         inp.max_jerk[dof]),
     start |-> ib.s]

\* The body of the first loop for one axis: a disabled axis gets its final
\* state and t_sum[6] written and nothing else; an enabled axis gets its brake
\* prelude and the Step1 profile.
CalculateAxis(inp, dof, pin) ==
    IF ~inp.enabled[dof]
    THEN [step1 |-> [found |-> TRUE,
                     profile |-> [pin EXCEPT !.pf = inp.current_position[dof],
                                             !.vf = inp.current_velocity[dof],
                                             !.af = inp.current_acceleration[dof],
                                             !.t_sum[6] = 0],
                     block |-> DefaultBlock],
          start |-> State(0, 0, 0)]
    ELSE Step1Axis(inp, dof, BrakeAxis(inp, dof, pin))

\* The first loop over the axes; it returns at the first axis without profile.
RECURSIVE Step1Loop(_, _, _)
Step1Store(inp, dof, acc, r) ==
    IF ~r.step1.found
    THEN [acc EXCEPT !.profiles[dof] = r.step1.profile, !.failed = dof]
    ELSE Step1Loop(inp, dof + 1,
                   [acc EXCEPT !.profiles[dof] = r.step1.profile,
                               !.blocks[dof] = r.step1.block,
                               !.starts[dof] = r.start])

Step1Loop(inp, dof, acc) ==
    IF dof = DOFs THEN acc
    ELSE Step1Store(inp, dof, acc, CalculateAxis(inp, dof, acc.profiles[dof]))

\* The body of the second loop for one axis, were the case of
\* Synchronization::TimeIfNecessary left out.
SynchronizeProfileAlways(inp, dof, t_profile, p, block, start) ==
    IF t_profile = block.t_min
    THEN [found |-> TRUE, profile |-> block.p_min, step2 |-> FALSE]
    ELSE IF block.a.has /\ t_profile = block.a.right
    THEN [found |-> TRUE, profile |-> block.a.profile, step2 |-> FALSE]
    ELSE IF block.b.has /\ t_profile = block.b.right
    THEN [found |-> TRUE, profile |-> block.b.profile, step2 |-> FALSE]
    ELSE Position2(p, t_profile, start.p, start.v, start.a,
                   inp.target_position[dof], inp.target_velocity[dof],
                   inp.target_acceleration[dof],
                   inp.max_velocity[dof], MinVelocity(inp, dof),
                   inp.max_acceleration[dof], MinAcceleration(inp, dof),
                   inp.max_jerk[dof]) @@ [step2 |-> TRUE]

\* The body of the second loop (time synchronization) for one axis with
\* t_profile = duration - t_brake.
SynchronizeProfile(inp, dof, t_profile, p, block, start) ==
    IF /\ inp.synchronization = TimeIfNecessary
       /\ inp.target_velocity[dof] = 0
       /\ inp.target_acceleration[dof] = 0
    THEN [found |-> TRUE, profile |-> block.p_min, step2 |-> FALSE]
    ELSE IF t_profile = block.t_min
    THEN [found |-> TRUE, profile |-> block.p_min, step2 |-> FALSE]
    ELSE IF block.a.has /\ t_profile = block.a.right
    THEN [found |-> TRUE, profile |-> block.a.profile, step2 |-> FALSE]
    ELSE IF block.b.has /\ t_profile = block.b.right
    THEN [found |-> TRUE, profile |-> block.b.profile, step2 |-> FALSE]
    ELSE Position2(p, t_profile, start.p, start.v, start.a,
                   inp.target_position[dof], inp.target_velocity[dof],
                   inp.target_acceleration[dof],
                   inp.max_velocity[dof], MinVelocity(inp, dof),
                   inp.max_acceleration[dof], MinAcceleration(inp, dof),
                   inp.max_jerk[dof]) @@ [step2 |-> TRUE]

SynchronizeAxis(inp, dof, duration, limiting_dof, p, block, start) ==
    IF ~inp.enabled[dof] \/ dof = limiting_dof
    THEN [found |-> TRUE, profile |-> p, step2 |-> FALSE]
    ELSE SynchronizeProfile(inp, dof, duration - ValueOr(p.t_brake, 0), p, block, start)

RECURSIVE Step2Loop(_, _, _, _, _)
Step2Store(inp, dof, duration, limiting_dof, acc, r) ==
    IF ~r.found
    THEN [acc EXCEPT !.profiles[dof] = r.profile, !.failed = dof,
                     !.step2 = IF r.step2 THEN @ \cup {dof} ELSE @]
    ELSE Step2Loop(inp, dof + 1, duration, limiting_dof,
                   [acc EXCEPT !.profiles[dof] = r.profile,
                               !.step2 = IF r.step2 THEN @ \cup {dof} ELSE @])

Step2Loop(inp, dof, duration, limiting_dof, acc) ==
    IF dof = DOFs THEN acc
    ELSE Step2Store(inp, dof, duration, limiting_dof, acc,
                    SynchronizeAxis(inp, dof, duration, limiting_dof, acc.profiles[dof],
                                    acc.blocks[dof], acc.starts[dof]))

\* The loop of Synchronization::None: every axis but the limiting one gets p_min.
NoneLoop(inp, limiting_dof, acc) ==
    [acc EXCEPT !.profiles = [dof \in Dofs |->
        IF ~inp.enabled[dof] \/ dof = limiting_dof THEN acc.profiles[dof]
        ELSE acc.blocks[dof].p_min]]

\* What a calculate call returns and leaves in the trajectory (profiles,
\* duration); failed, synchronized, limiting_dof and step2 record the solver
\* calls that were made, and at_p_min the axes whose profile is the p_min of
\* their block.
Returned(result, acc, duration, synchronized, limiting_dof) ==
    [result |-> result, profiles |-> acc.profiles, duration |-> duration,
     step1_failed |-> IF synchronized THEN -1 ELSE acc.failed,
     synchronized |-> synchronized, limiting_dof |-> limiting_dof, step2 |-> acc.step2,
     at_p_min |-> { dof \in Dofs : acc.profiles[dof] = acc.blocks[dof].p_min }]

AfterStep2(s2, sync) ==
    Returned(IF s2.failed >= 0 THEN ErrorSynchronizationCalculation ELSE Working,
             s2, sync.t_sync, TRUE, sync.limiting_dof)

\* calculate from the call of Block::synchronize on, were the maximum-duration
\* guard left out.
AfterSynchronizeUnguarded(s1, sync, duration, inp, return_error_at_maximal_duration) ==
    IF ~sync.found
    THEN Returned(ErrorSynchronizationCalculation, s1, duration, FALSE, -1)
    ELSE IF sync.t_sync > 0 /\ inp.synchronization # None
    THEN AfterStep2(Step2Loop(inp, 0, sync.t_sync, sync.limiting_dof, s1), sync)
    ELSE IF inp.synchronization = None
    THEN Returned(Working, NoneLoop(inp, sync.limiting_dof, s1), sync.t_sync, TRUE,
                  sync.limiting_dof)
    ELSE Returned(Working, s1, sync.t_sync, TRUE, sync.limiting_dof)

\* calculate from the call of Block::synchronize on: synchronization failure,
\* maximum-duration guard, then the second loop or the loop of None.
AfterSynchronize(s1, sync, duration, inp, return_error_at_maximal_duration) ==
    IF ~sync.found
    THEN Returned(ErrorSynchronizationCalculation, s1, duration, FALSE, -1)
    ELSE IF return_error_at_maximal_duration /\ sync.t_sync > MaxDurationGuard
    THEN Returned(ErrorTrajectoryDuration, s1, sync.t_sync, TRUE, sync.limiting_dof)
    ELSE IF sync.t_sync > 0 /\ inp.synchronization # None
    THEN AfterStep2(Step2Loop(inp, 0, sync.t_sync, sync.limiting_dof, s1), sync)
    ELSE IF inp.synchronization = None
    THEN Returned(Working, NoneLoop(inp, sync.limiting_dof, s1), sync.t_sync, TRUE,
                  sync.limiting_dof)
    ELSE Returned(Working, s1, sync.t_sync, TRUE, sync.limiting_dof)

AfterStep1(s1, duration, inp, delta_time, return_error_at_maximal_duration) ==
    IF s1.failed >= 0
    THEN Returned(ErrorExecutionTimeCalculation, s1, duration, FALSE, -1)
    ELSE AfterSynchronize(s1,
                          Synchronize(s1.blocks, inp.minimum_duration,
                                      inp.duration_discretization = Discrete, delta_time),
                          duration, inp, return_error_at_maximal_duration)

\* calculate<throw_error = false, return_error_at_maximal_duration>(inp, delta_time)
\* on a trajectory holding (profiles, duration).
ProfileCalculate(profiles, duration, inp, delta_time, return_error_at_maximal_duration) ==
    AfterStep1(Step1Loop(inp, 0, [profiles |-> profiles,
                                  blocks |-> [d \in Dofs |-> DefaultBlock],
                                  starts |-> [d \in Dofs |-> State(0, 0, 0)],
                                  failed |-> -1, step2 |-> {}]),
               duration, inp, delta_time, return_error_at_maximal_duration)

\* ProfileTrajectory::at_time for one axis.
ProfileAtTimeAxis(p, duration, time) ==
    IF time > duration
    THEN Integrate(time - duration, p.pf, p.vf, p.af, 0)
    ELSE IF p.t_brake.has /\ time < p.t_brake.val
    THEN LET index == IF time < p.t_brakes[0] THEN 0 ELSE 1
             t_diff == IF index > 0 THEN time - p.t_brakes[index - 1] ELSE time
         IN  Integrate(t_diff, p.p_brakes[index], p.v_brakes[index], p.a_brakes[index],
                       p.j_brakes[index])
    ELSE LET t_diff == IF p.t_brake.has THEN time - p.t_brake.val ELSE time
         IN  IF t_diff >= p.t_sum[6]
             THEN Integrate(t_diff - p.t_sum[6], p.pf, p.vf, p.af, 0)
             ELSE StateAtTime(p, t_diff)

\* ProfileTrajectory::at_time(time, new_position, new_velocity, new_acceleration):
\* the three vectors it writes.
ProfileAtTime(profs, dur, time) ==
    [new_position |-> [dof \in Dofs |-> ProfileAtTimeAxis(profs[dof], dur, time).p],
     new_velocity |-> [dof \in Dofs |-> ProfileAtTimeAxis(profs[dof], dur, time).v],
     new_acceleration |-> [dof \in Dofs |-> ProfileAtTimeAxis(profs[dof], dur, time).a]]

(***************************************************************************)
(* Segments (segment.hpp) and Path (path.hpp).  Coordinates and arc length *)
(* are on the position grid.  A quotient the program takes in double is    *)
(* taken exactly; the catalogue of paths (axis-parallel segments) keeps    *)
(* every quotient the model evaluates whole.                               *)
(***************************************************************************)
Quot(a, b) == CHOOSE q \in {a \div b} : q * b = a

Sqrt(n) == CHOOSE r \in 0 .. n : r * r = n

RECURSIVE SumSquares(_, _, _)
SumSquares(u, w, n) ==
    IF n = 0 THEN 0
    ELSE SumSquares(u, w, n - 1) + (w[n - 1] - u[n - 1]) * (w[n - 1] - u[n - 1])

\* LinearSegment(start, end)
LinearSegment(start, end) ==
    [kind |-> "Linear", length |-> Sqrt(SumSquares(start, end, DOFs)),
     start |-> start, end |-> end]

\* LinearSegment::q(s)
LinearQ(seg, s) ==
    [dof \in Dofs |-> seg.start[dof] + Quot(s * (seg.end[dof] - seg.start[dof]), seg.length)]

\* LinearSegment::pdq(s)
LinearPdq(seg, s) == [dof \in Dofs |-> Quot(seg.end[dof] - seg.start[dof], seg.length)]

\* LinearSegment::pddq(s)
LinearPddq(seg, s) == [dof \in Dofs |-> 0]

\* QuarticBlendSegment(lb, lm, rb, rm, s_mid, max_diff, s_abs_max).  The
\* coefficients b and c are kept as fractions num/den.
BlendHalfLength(lm, rm, max_diff, s_abs_max) ==
    LET finite == { Quot(16 * max_diff, 3 * Abs(lm[dof] - rm[dof])) :
                      dof \in { d \in Dofs : lm[d] # rm[d] } }
    IN  MinOf(finite \cup {s_abs_max})

QuarticBlendSegment(lb, lm, rb, rm, s_mid, max_diff, s_abs_max) ==
    LET s_abs_min == BlendHalfLength(lm, rm, max_diff, s_abs_max)
    IN  [kind |-> "QuarticBlend", length |-> 2 * s_abs_min,
         b |-> [dof \in Dofs |-> [num |-> lm[dof] - rm[dof],
                                  den |-> 16 * s_abs_min * s_abs_min * s_abs_min]],
         c |-> [dof \in Dofs |-> [num |-> rm[dof] - lm[dof],
                                  den |-> 4 * s_abs_min * s_abs_min]],
         e |-> lm,
         f |-> [dof \in Dofs |-> lb[dof] + lm[dof] * (s_mid - s_abs_min)],
         lb |-> lb, lm |-> lm, rb |-> rb, rm |-> rm]

\* QuarticBlendSegment::q(s) = f + s e + s^3 c + s^4 b
BlendQ(seg, s) ==
    [dof \in Dofs |->
        seg.f[dof] + s * seg.e[dof]
        + Quot(s * s * s * seg.c[dof].num * (seg.b[dof].den \div seg.c[dof].den)
               + s * s * s * s * seg.b[dof].num,
               seg.b[dof].den)]

\* QuarticBlendSegment::pdq(s) = e + 3 s^2 c + 4 s^3 b
BlendPdq(seg, s) ==
    [dof \in Dofs |->
        seg.e[dof]
        + Quot(3 * s * s * seg.c[dof].num * (seg.b[dof].den \div seg.c[dof].den)
               + 4 * s * s * s * seg.b[dof].num,
               seg.b[dof].den)]

\* QuarticBlendSegment::pddq(s) = 6 s c + 12 s^2 b
BlendPddq(seg, s) ==
    [dof \in Dofs |->
        Quot(6 * s * seg.c[dof].num * (seg.b[dof].den \div seg.c[dof].den)
             + 12 * s * s * seg.b[dof].num,
             seg.b[dof].den)]

\* std::visit over the alternatives of a segment
SegmentQ(seg, s) == IF seg.kind = "Linear" THEN LinearQ(seg, s) ELSE BlendQ(seg, s)
SegmentPdq(seg, s) == IF seg.kind = "Linear" THEN LinearPdq(seg, s) ELSE BlendPdq(seg, s)
SegmentPddq(seg, s) == IF seg.kind = "Linear" THEN LinearPddq(seg, s) ELSE BlendPddq(seg, s)

\* PathWaypoint
Absolute == "Absolute"
Relative == "Relative"
PathWaypoint(vector, reference, max_blend_distance) ==
    [vector |-> vector, reference |-> reference, max_blend_distance |-> max_blend_distance]

\* The first loop of Path::Path: absolute_waypoints[i], i in 0 .. N, where the
\* constructor's waypoints[i] is waypoints[i + 1] of the model's sequence.
RECURSIVE AbsoluteWaypoint(_, _, _)
AbsoluteWaypoint(start, waypoints, i) ==
    IF i = 0 THEN start
    ELSE IF waypoints[i].reference = Absolute THEN waypoints[i].vector
    ELSE LET prev_wp == AbsoluteWaypoint(start, waypoints, i - 1)
         IN  [dof \in Dofs |-> prev_wp[dof] + waypoints[i].vector[dof]]

\* The unit tangent of a line segment (lm, rm of the loop body).
Tangent(line) ==
    [dof \in Dofs |-> Quot(line.end[dof] - line.start[dof], line.length)]

\* The junction with a blend: the shortened left line and the blend are
\* emitted, each with its entry of cumulative_lengths, and the right line is
\* replaced by its shortened rest.
Blended(st, i, blend, new_left, new_right) ==
    [line_segments |-> [st.line_segments EXCEPT ![i] = new_right],
     segments |-> st.segments \o <<new_left, blend>>,
     cumulative_lengths |-> st.cumulative_lengths
         \o <<st.cumulative_length + new_left.length,
              st.cumulative_length + new_left.length + blend.length>>,
     cumulative_length |-> st.cumulative_length + new_left.length + blend.length]

Shortened(st, i, left, right, blend, s_abs) ==
    Blended(st, i, blend,
            LinearSegment(left.start, LinearQ(left, left.length - s_abs)),
            LinearSegment(LinearQ(right, s_abs), right.end))

Blend(st, i, left, right, blend) == Shortened(st, i, left, right, blend, Quot(blend.length, 2))

\* The body of the second loop of Path::Path for the junction i (1 <= i < N):
\* with a blend distance it emits the shortened left line and the blend;
\* without, it emits the left line.
Junction(st, i, blend_distance) ==
    IF blend_distance > 0
    THEN Blend(st, i, st.line_segments[i - 1], st.line_segments[i],
               QuarticBlendSegment(st.line_segments[i - 1].start,
                                   Tangent(st.line_segments[i - 1]),
                                   st.line_segments[i].start,
                                   Tangent(st.line_segments[i]),
                                   st.line_segments[i - 1].length, blend_distance,
                                   Quot(IF st.line_segments[i - 1].length
                                           <= st.line_segments[i].length
                                        THEN st.line_segments[i - 1].length
                                        ELSE st.line_segments[i].length, 2)))
    ELSE [line_segments |-> st.line_segments,
          segments |-> Append(st.segments, st.line_segments[i - 1]),
          cumulative_lengths |-> Append(st.cumulative_lengths,
                                        st.cumulative_length + st.line_segments[i - 1].length),
          cumulative_length |-> st.cumulative_length + st.line_segments[i - 1].length]

RECURSIVE JunctionLoop(_, _, _, _)
JunctionLoop(st, i, waypoints, max_blend_distance) ==
    IF i >= Len(waypoints) THEN st
    ELSE JunctionLoop(Junction(st, i, ValueOr(waypoints[i + 1].max_blend_distance,
                                             max_blend_distance)),
                      i + 1, waypoints, max_blend_distance)

\* The line segments between the resolved waypoints.
Lines(absolute_waypoints, N) ==
    [i \in 0 .. (N - 1) |-> LinearSegment(absolute_waypoints[i], absolute_waypoints[i + 1])]

\* The end of Path::Path, were the total length appended to
\* cumulative_lengths with the last line.
CompiledWithTotal(absolute_waypoints, N, st) ==
    [absolute_waypoints |-> absolute_waypoints,
     line_segments |-> st.line_segments,
     segments |-> Append(st.segments, st.line_segments[N - 1]),
     cumulative_lengths |-> Append(st.cumulative_lengths,
                                   st.cumulative_length + st.line_segments[N - 1].length),
     length |-> st.cumulative_length + st.line_segments[N - 1].length]

\* The end of Path::Path: the last line is emitted without an entry of
\* cumulative_lengths, and length is the sum of the lengths.
Compiled(absolute_waypoints, N, st) ==
    [absolute_waypoints |-> absolute_waypoints,
     line_segments |-> st.line_segments,
     segments |-> Append(st.segments, st.line_segments[N - 1]),
     cumulative_lengths |-> st.cumulative_lengths,
     length |-> st.cumulative_length + st.line_segments[N - 1].length]

PathOf(absolute_waypoints, waypoints, max_blend_distance) ==
    Compiled(absolute_waypoints, Len(waypoints),
             JunctionLoop([line_segments |-> Lines(absolute_waypoints, Len(waypoints)),
                           segments |-> <<>>,
                           cumulative_lengths |-> <<0>>, cumulative_length |-> 0],
                          1, waypoints, max_blend_distance))

\* Path::Path(start, waypoints, max_blend_distance), for at least one waypoint.
\* segments and cumulative_lengths are sequences: the program's segments[i] is
\* segments[i + 1] here.
PathNew(start, waypoints, max_blend_distance) ==
    PathOf([i \in 0 .. Len(waypoints) |-> AbsoluteWaypoint(start, waypoints, i)],
           waypoints, max_blend_distance)

\* std::upper_bound(v.begin(), v.end(), s) - v.begin() for a sorted vector
UpperBound(v, s) == Cardinality({ k \in 1 .. Len(v) : v[k] <= s })

\* Path::find_index(s), were the arc length handed on to the segment as it is.
FindIndexGlobal(pth, s, index) == [index |-> index, s_local |-> s]

\* Path::find_index(s): index is the program's (0-based) index; an upper
\* bound of 0 gives index -1 here, which is SIZE_MAX in the program.
FindIndexAt(pth, s, index) ==
    [index |-> index,
     s_local |-> IF index >= 0 THEN s - pth.cumulative_lengths[index + 1] ELSE s]

FindIndex(pth, s) == FindIndexAt(pth, s, UpperBound(pth.cumulative_lengths, s) - 1)

\* Path::q(s), Path::pdq(s)
PathQAt(pth, fi) == SegmentQ(pth.segments[fi.index + 1], fi.s_local)
PathQ(pth, s) == PathQAt(pth, FindIndex(pth, s))

PathPdqAt(pth, fi) == SegmentPdq(pth.segments[fi.index + 1], fi.s_local)
PathPdq(pth, s) == PathPdqAt(pth, FindIndex(pth, s))

PathPddqAt(pth, fi) == SegmentPddq(pth.segments[fi.index + 1], fi.s_local)
PathPddq(pth, s) == PathPddqAt(pth, FindIndex(pth, s))

\* Path::dq(s, ds) and Path::ddq(s, ds, dds)
PathDq(pth, s, ds) == [dof \in Dofs |-> PathPdq(pth, s)[dof] * ds]
PathDdq(pth, s, ds, dds) ==
    [dof \in Dofs |-> PathPddq(pth, s)[dof] * ds * ds + PathPdq(pth, s)[dof] * dds]

(***************************************************************************)
(* PathTrajectory (trajectory.hpp).                                        *)
(***************************************************************************)

\* PathTrajectory(path, v0, a0, vf, af)
PathTrajectoryNew(pth, v0, a0, vf, af) ==
    [path |-> pth, s0 |-> 0, sf |-> pth.length,
     p0 |-> PathQ(pth, 0), pf |-> PathQ(pth, pth.length),
     v0 |-> v0, vf |-> vf, a0 |-> a0, af |-> af,
     main_profile |-> DefaultProfile]

\* The loop of PathTrajectory::calculate: Step1 for every axis from the path's
\* end points; what get_profile returns is not looked at.
PathStep1(pt, input, dof) ==
    Position1(DefaultProfile, pt.p0[dof], pt.v0[dof], pt.a0[dof],
              pt.pf[dof], pt.vf[dof], pt.af[dof],
              input.max_velocity[dof], -input.max_velocity[dof],
              input.max_acceleration[dof], -input.max_acceleration[dof],
              input.max_jerk[dof])

\* The end of PathTrajectory::calculate: the limiting axis' profile becomes
\* main_profile, its t_sum[6] the duration, and the result is Working.
PathSynchronized(pt, step1, limiting_dof) ==
    [result |-> Working,
     pt |-> [pt EXCEPT !.main_profile = step1[limiting_dof].profile],
     duration |-> step1[limiting_dof].profile.t_sum[6],
     step1_failed |-> { dof \in Dofs : ~step1[dof].found },
     limiting_dof |-> limiting_dof]

PathStep1Done(pt, step1) ==
    PathSynchronized(pt, step1,
                     Synchronize([dof \in Dofs |-> step1[dof].block], Nullopt, FALSE,
                                 1).limiting_dof)

\* PathTrajectory::calculate(input, delta_time): it synchronizes without
\* minimum duration and without discretization.
PathCalculate(pt, input, delta_time) ==
    PathStep1Done(pt, [dof \in Dofs |-> PathStep1(pt, input, dof)])

\* PathTrajectory::time_parametrization(time)
Scaled(new, scale) ==
    [s |-> Quot(new.p, scale), ds |-> Quot(new.v, scale), dds |-> Quot(new.a, scale)]

TimeParametrization(pt, time) ==
    Scaled(StateAtTime(pt.main_profile, time),
           Quot(pt.main_profile.pf - pt.main_profile.p[0], pt.path.segments[1].length))

\* The states of all axes as the three vectors at_time assigns.
Vectors(states) ==
    [new_position |-> [dof \in Dofs |-> states[dof].p],
     new_velocity |-> [dof \in Dofs |-> states[dof].v],
     new_acceleration |-> [dof \in Dofs |-> states[dof].a]]

PathAtParameter(pt, tp) ==
    [new_position |-> PathQ(pt.path, tp.s),
     new_velocity |-> PathDq(pt.path, tp.s, tp.ds),
     new_acceleration |-> PathDdq(pt.path, tp.s, tp.ds, tp.dds)]

\* PathTrajectory::at_time(time, new_position, new_velocity, new_acceleration):
\* what it assigns to its three parameters.
PathAtTime(pt, duration, time) ==
    IF time > duration
    THEN Vectors([dof \in Dofs |->
                    Integrate(time - duration, pt.pf[dof], pt.vf[dof], pt.af[dof], 0)])
    ELSE PathAtParameter(pt, TimeParametrization(pt, time))

\* What Trajectory::at_time leaves in the caller's vectors when the variant
\* holds a PathTrajectory: new_velocity is declared by value there.
PathOutputs(r, buf, time) ==
    [new_position |-> r.new_position, new_velocity |-> buf.new_velocity,
     new_acceleration |-> r.new_acceleration, time |-> time]

\* Trajectory::at_time(time, new_position, new_velocity, new_acceleration): the
\* caller's three vectors after the call.  The visit hands them on by
\* reference.
TrajectoryAtTime(variant, profs, pt, dur, buf, time) ==
    IF variant = "ProfileTrajectory"
    THEN ProfileAtTime(profs, dur, time) @@ [time |-> time]
    ELSE PathOutputs(PathAtTime(pt, dur, time), buf, time)

(***************************************************************************)
(* The calls of one behaviour.                                             *)
(***************************************************************************)

\* The latest time a trajectory is evaluated at.
MaxTime == 6
Times == 0 .. MaxTime

\* A minimum duration above the maximum-duration guard.
LongDuration == MaxDurationGuard + 1

\* minimum_duration, duration_discretization, the delta_time of the call and
\* whether it is made with return_error_at_maximal_duration
Timing(minimum_duration, discretization, delta_time, guard) ==
    [minimum_duration |-> minimum_duration, discretization |-> discretization,
     delta_time |-> delta_time, guard |-> guard]

Timings ==
    { Timing(Nullopt, Continuous, 1, TRUE),
      Timing(Nullopt, Discrete, 3, TRUE),
      Timing(Some(5), Continuous, 1, FALSE),
      Timing(Some(LongDuration), Continuous, 1, TRUE),
      Timing(Some(LongDuration), Continuous, 1, FALSE) }

CallOf(inp, delta_time, guard) ==
    [inp |-> inp, delta_time |-> delta_time, return_error_at_maximal_duration |-> guard]

\* The arguments of a first calculate call in waypoint mode.
Calls ==
    { CallOf(MkInput(sync, tm.discretization, Arr2(c0, c1), en, tm.minimum_duration),
             tm.delta_time, tm.guard) :
        sync \in {Time, TimeIfNecessary, None}, tm \in Timings,
        c0 \in AxisCases, c1 \in AxisCases, en \in [Dofs -> BOOLEAN] }

AllEnabled == [d \in Dofs |-> TRUE]

\* First calls with an axis that is at its target already: both axes (a
\* trajectory of duration 0), or the second axis only.
\* First calls with an axis whose brake prelude has an empty first segment.
DeceleratingCalls ==
    { CallOf(MkInput(Time, Continuous, cases, AllEnabled, Nullopt), 1, TRUE) :
        cases \in {Arr2(Decelerating, RestShort), Arr2(RestShort, Decelerating)} }

StillCalls ==
    { CallOf(MkInput(sync, Continuous, Arr2(c0, Held), AllEnabled, Nullopt), 1, TRUE) :
        sync \in {Time, TimeIfNecessary, None}, c0 \in {Held, RestShort} }

\* The arguments of a later calculate call on the same trajectory: a call that
\* succeeds, one that fails in Step1 of the second axis, one that fails in the
\* synchronization, one that runs into the maximum-duration guard, one with a
\* disabled axis, and one with a disabled axis that fails in Step1 of the other.
Recalls ==
    { CallOf(MkInput(None, Continuous, Arr2(ToCruise, RestShort), AllEnabled, Nullopt), 1, TRUE),
      CallOf(MkInput(Time, Continuous, Arr2(RestLong, Unreachable), AllEnabled, Nullopt), 1, TRUE),
      CallOf(MkInput(Time, Discrete, Arr2(RestShort, RestLong), AllEnabled, Nullopt), 3, TRUE),
      CallOf(MkInput(Time, Continuous, Arr2(FromCruise, RestShort), AllEnabled,
                     Some(LongDuration)), 1, TRUE),
      CallOf(MkInput(Time, Continuous, Arr2(ToCruise, FromCruise),
                     [d \in Dofs |-> d = 1], Nullopt), 1, FALSE),
      CallOf(MkInput(Time, Continuous, Arr2(FromCruise, Unreachable),
                     [d \in Dofs |-> d = 1], Nullopt), 1, TRUE) }

\* The arguments of a calculate call in path mode: the limits 1, 1, 1 on both
\* axes (the positions of the input are not read in path mode).
PathCalls ==
    { CallOf(MkInput(Time, tm.discretization, Arr2(RestShort, RestShort), AllEnabled,
                     tm.minimum_duration), tm.delta_time, tm.guard) :
        tm \in { t \in Timings : ~t.minimum_duration.has } }

\* The paths of the path trajectories: one line of length 2 along the first
\* axis, from the origin or from 1.
Point(x0, x1) == Arr2(x0, x1)
TrajectoryPaths ==
    { PathNew(start, <<PathWaypoint(Point(24, 0), Relative, Nullopt)>>, 0) :
        start \in {Point(0, 0), Point(12, 0)} }

\* The most waypoints of a path.
MaxWaypoints == 3

\* The paths that are constructed: a start, up to MaxWaypoints waypoints
\* (absolute or relative, with their own blend distance or without) and the
\* default blend distance.  Consecutive resolved waypoints differ in exactly
\* one coordinate, so every length is whole and positive.
PathStarts == {Point(0, 0), Point(16, 0)}

PathWaypoints ==
    { PathWaypoint(vec, ref, bl) :
        vec \in {Point(48, 0), Point(0, 48), Point(0, 16)},
        ref \in {Absolute, Relative}, bl \in {Nullopt, Some(3)} }

WaypointLists == UNION { [1 .. n -> PathWaypoints] : n \in 1 .. MaxWaypoints }

AxisParallel(u, w) == Cardinality({ dof \in Dofs : u[dof] # w[dof] }) = 1

PathArguments ==
    { a \in [start : PathStarts, waypoints : WaypointLists, max_blend_distance : {0, 6}] :
        \A i \in 1 .. Len(a.waypoints) :
            AxisParallel(AbsoluteWaypoint(a.start, a.waypoints, i - 1),
                         AbsoluteWaypoint(a.start, a.waypoints, i)) }

\* The arc lengths a path is evaluated at: its start, its end, the starts of
\* its segments, and an arc length of 1 before the start and after the end.
QueryPoints(pth) ==
    {-12, 0, pth.length, pth.length + 12}
    \cup { pth.cumulative_lengths[k] : k \in 1 .. Len(pth.cumulative_lengths) }

(***************************************************************************)
(* State.                                                                  *)
(*   data       which alternative the Trajectory variant holds             *)
(*   profiles   ProfileTrajectory::profiles                                *)
(*   duration   the trajectory's duration                                  *)
(*   pathtraj   the PathTrajectory                                         *)
(*   out        the caller's new_position, new_velocity, new_acceleration  *)
(*              and the time of the last at_time call (-1: none yet)       *)
(*   call       the last calculate call: its number, arguments and result, *)
(*              the axes whose Step1 found no profile, whether the         *)
(*              synchronization succeeded, the axes that ran Step2, the    *)
(*              axes left at the p_min of their block, and whether some    *)
(*              call so far returned Working                               *)
(*   path       the Path: whether it was constructed, its arguments, the   *)
(*              constructed object, whether it was evaluated, and the last *)
(*              arc length s with the index find_index gave (-1 stands for *)
(*              SIZE_MAX) and the q(s) returned                            *)
(***************************************************************************)
VARIABLES data, profiles, duration, pathtraj, out, call, path

vars == <<data, profiles, duration, pathtraj, out, call, path>>

NoCall ==
    [n |-> 0, result |-> "none",
     args |-> CallOf(MkInput(Time, Continuous, Arr2(Held, Held), AllEnabled, Nullopt), 1, FALSE),
     step1_failed |-> {}, synchronized |-> FALSE, limiting_dof |-> -1, step2 |-> {},
     at_p_min |-> {}, computed |-> FALSE]

Init ==
    /\ data = "none"
    /\ profiles = [d \in Dofs |-> DefaultProfile]
    /\ duration = 0
    /\ pathtraj = [has |-> FALSE]
    /\ out = [new_position |-> Point(0, 0), new_velocity |-> Point(0, 0),
              new_acceleration |-> Point(0, 0), time |-> -1]
    /\ call = NoCall
    /\ path = [status |-> "none"]

\* ProfileTrajectory()
NewProfileTrajectory ==
    /\ data = "none"
    /\ data' = "ProfileTrajectory"
    /\ UNCHANGED <<profiles, duration, pathtraj, out, call, path>>

\* PathTrajectory(path, v0, a0, vf, af): the motion starts at rest and ends at
\* rest or with a velocity of 2 along the first axis.
NewPathTrajectory ==
    /\ data = "none"
    /\ \E pth \in TrajectoryPaths, vf0 \in {0, 4} :
          pathtraj' = [has |-> TRUE,
                       pt |-> PathTrajectoryNew(pth, Point(0, 0), Point(0, 0),
                                                Point(vf0, 0), Point(0, 0))]
    /\ data' = "PathTrajectory"
    /\ UNCHANGED <<profiles, duration, out, call, path>>

\* ProfileTrajectory::calculate(inp, delta_time)
Calculate ==
    /\ data = "ProfileTrajectory"
    /\ call.n < MaxCalls
    /\ \E args \in (IF call.n = 0 THEN Calls \cup StillCalls \cup DeceleratingCalls ELSE Recalls) :
          \E r \in {ProfileCalculate(profiles, duration, args.inp, args.delta_time,
                                     args.return_error_at_maximal_duration)} :
              /\ profiles' = r.profiles
              /\ duration' = r.duration
              /\ call' = [n |-> call.n + 1, result |-> r.result, args |-> args,
                          step1_failed |-> IF r.step1_failed >= 0 THEN {r.step1_failed}
                                           ELSE {},
                          synchronized |-> r.synchronized,
                          limiting_dof |-> r.limiting_dof, step2 |-> r.step2,
                          at_p_min |-> r.at_p_min,
                          computed |-> call.computed \/ r.result = Working]
    /\ UNCHANGED <<data, pathtraj, out, path>>

\* PathTrajectory::calculate(input, delta_time)
CalculatePath ==
    /\ data = "PathTrajectory"
    /\ call.n < MaxCalls
    /\ \E args \in PathCalls :
          \E r \in {PathCalculate(pathtraj.pt, args.inp, args.delta_time)} :
              /\ pathtraj' = [pathtraj EXCEPT !.pt = r.pt]
              /\ duration' = r.duration
              /\ call' = [n |-> call.n + 1, result |-> r.result, args |-> args,
                          step1_failed |-> r.step1_failed,
                          synchronized |-> TRUE,
                          limiting_dof |-> r.limiting_dof, step2 |-> {},
                          at_p_min |-> {},
                          computed |-> call.computed \/ r.result = Working]
    /\ UNCHANGED <<data, profiles, out, path>>

\* A trajectory can be evaluated once a calculate call returned Working; in
\* path mode the scale of the time parametrization must not be zero.
Evaluable ==
    /\ call.computed
    /\ data = "PathTrajectory" =>
          pathtraj.pt.main_profile.pf # pathtraj.pt.main_profile.p[0]

\* Trajectory::at_time(time, out.new_position, out.new_velocity, out.new_acceleration)
AtTime ==
    /\ Evaluable
    /\ \E time \in Times :
          out' = TrajectoryAtTime(data, profiles, IF pathtraj.has THEN pathtraj.pt ELSE pathtraj,
                                  duration, out, time)
    /\ UNCHANGED <<data, profiles, duration, pathtraj, call, path>>

Next == NewProfileTrajectory \/ NewPathTrajectory \/ Calculate \/ CalculatePath \/ AtTime

Spec == Init /\ [][Next]_vars

(***************************************************************************)
(* The construction and evaluation of a Path on its own.                   *)
(***************************************************************************)

\* Path(start, waypoints, max_blend_distance).  The constructor assigns to
\* cumulative_lengths[0] while the vector is still empty (storage is
\* reserved, the size is 0): a build with container assertions stops there,
\* any other build writes into the reserved storage, which the emplace_back
\* that follows overwrites.
PathConstruct ==
    /\ path.status = "none"
    /\ \E a \in PathArguments, outcome \in {"built", "aborted"} :
          path' = IF outcome = "aborted"
                  THEN [status |-> "aborted"]
                  ELSE [status |-> "built", args |-> a,
                        pth |-> PathNew(a.start, a.waypoints, a.max_blend_distance),
                        asked |-> FALSE, s |-> 0, index |-> 0, q |-> a.start]
    /\ UNCHANGED <<data, profiles, duration, pathtraj, out, call>>

\* What reading cumulative_lengths and segments at an index outside them can
\* give: the program stops, or it goes on with whatever is found there.
OutsideReads == [stops : BOOLEAN, q : PathStarts]

\* The path after q(s) with the index and local arc length fi of find_index.
Queried(pth, s, fi, outside) ==
    IF fi.index \in 0 .. (Len(pth.pth.segments) - 1)
    THEN [pth EXCEPT !.asked = TRUE, !.s = s, !.index = fi.index,
                     !.q = PathQAt(pth.pth, fi)]
    ELSE IF outside.stops THEN [status |-> "aborted"]
    ELSE [pth EXCEPT !.asked = TRUE, !.s = s, !.index = fi.index, !.q = outside.q]

\* Path::q(s)
PathQuery ==
    /\ path.status = "built"
    /\ \E s \in QueryPoints(path.pth), outside \in OutsideReads :
          path' = Queried(path, s, FindIndex(path.pth, s), outside)
    /\ UNCHANGED <<data, profiles, duration, pathtraj, out, call>>

NextPath == PathConstruct \/ PathQuery

SpecPath == Init /\ [][NextPath]_vars

(***************************************************************************)
(* Properties.                                                             *)
(***************************************************************************)

\* C1: whenever Step1 finds no profile for some axis, the calculate call
\* returns ErrorExecutionTimeCalculation, in waypoint mode and in path mode.
C1_Step1FailureReported ==
    call.n > 0 /\ call.step1_failed # {} => call.result = ErrorExecutionTimeCalculation

\* C2: a calculate call that returns an error on a trajectory whose previous
\* call returned Working leaves what at_time returns unchanged, for every time.
C2_FailedCallKeepsTrajectory ==
    [][(/\ data = "ProfileTrajectory"
        /\ call.result = Working
        /\ call'.n = call.n + 1
        /\ call'.result # Working)
       => \A t \in Times :
             ProfileAtTime(profiles', duration', t) = ProfileAtTime(profiles, duration, t)]_vars

\* C3: with return_error_at_maximal_duration, calculate never returns Working
\* with a duration above 7.6e3: once the synchronization succeeded with such a
\* duration it returns ErrorTrajectoryDuration and no axis ran Step2; without
\* return_error_at_maximal_duration it never returns ErrorTrajectoryDuration.
C3_MaximumDurationGuard ==
    call.n > 0 /\ data = "ProfileTrajectory" =>
        /\ call.args.return_error_at_maximal_duration =>
              ~(call.result = Working /\ duration > MaxDurationGuard)
        /\ (/\ call.args.return_error_at_maximal_duration
            /\ call.synchronized
            /\ duration > MaxDurationGuard)
           => call.result = ErrorTrajectoryDuration /\ call.step2 = {}
        /\ ~call.args.return_error_at_maximal_duration =>
              call.result # ErrorTrajectoryDuration

\* A guarded call whose synchronization gave a duration above the guard.
C3_Witness ==
    /\ data = "ProfileTrajectory"
    /\ call.n > 0
    /\ call.args.return_error_at_maximal_duration
    /\ call.synchronized
    /\ duration > MaxDurationGuard
    /\ call.result = ErrorTrajectoryDuration

\* C4: under Synchronization::Time, when calculate returns Working, the brake
\* prelude and the profile of every enabled axis together last the
\* trajectory's duration.
C4_TimeSynchronized ==
    (/\ data = "ProfileTrajectory"
     /\ call.n > 0
     /\ call.result = Working
     /\ call.args.inp.synchronization = Time)
    => \A dof \in Dofs :
          call.args.inp.enabled[dof] =>
              ValueOr(profiles[dof].t_brake, 0) + profiles[dof].t_sum[6] = duration

\* C5: for every axis, what at_time returns after the duration is the state it
\* returns at the duration, continued with constant acceleration.
C5_ExtrapolatesFromDuration ==
    (data = "ProfileTrajectory" /\ call.n > 0 /\ call.result = Working)
    => \A dof \in Dofs, t \in 1 .. 2 :
          ProfileAtTimeAxis(profiles[dof], duration, duration + t)
          = Integrate(t, ProfileAtTimeAxis(profiles[dof], duration, duration).p,
                      ProfileAtTimeAxis(profiles[dof], duration, duration).v,
                      ProfileAtTimeAxis(profiles[dof], duration, duration).a, 0)

\* C6: with DurationDiscretization::Discrete, when calculate returns Working
\* (waypoint mode or path mode), the duration is a whole multiple of the
\* delta_time of the call.
C6_DiscreteDuration ==
    (/\ call.n > 0
     /\ call.result = Working
     /\ call.args.inp.duration_discretization = Discrete)
    => duration % call.args.delta_time = 0

\* C7: after Trajectory::at_time(t, ...), the caller's new_velocity holds the
\* trajectory's velocity at t, in both variants.
C7_VelocityWritten ==
    [][out' # out
       => out'.new_velocity
          = IF data = "ProfileTrajectory"
            THEN ProfileAtTime(profiles, duration, out'.time).new_velocity
            ELSE PathAtTime(pathtraj.pt, duration, out'.time).new_velocity]_vars

\* C8: for a path trajectory over one linear segment, the time
\* parametrization gives arc length 0 at time 0 and the path's length at the
\* duration, and at_time reports the path's start and end there.
C8_ArcLengthFromZero ==
    (/\ data = "PathTrajectory"
     /\ call.n > 0
     /\ call.step1_failed = {}
     /\ Evaluable)
    => /\ TimeParametrization(pathtraj.pt, 0).s = 0
       /\ TimeParametrization(pathtraj.pt, duration).s = pathtraj.pt.path.length
       /\ PathAtTime(pathtraj.pt, duration, 0).new_position
          = pathtraj.pt.path.absolute_waypoints[0]
       /\ PathAtTime(pathtraj.pt, duration, duration).new_position
          = pathtraj.pt.path.absolute_waypoints[1]

C11_BlendShortensPath ==
    (/\ path.status = "built"
     /\ Len(path.args.waypoints) = 2
     /\ Len(path.pth.segments) = 3
     /\ path.pth.segments[2].kind = "QuarticBlend"
     /\ \A dof \in Dofs : path.pth.segments[2].lm[dof] * path.pth.segments[2].rm[dof] = 0)
    => /\ path.pth.segments[1].kind = "Linear"
       /\ path.pth.segments[3].kind = "Linear"
       /\ path.pth.length
          < LinearSegment(path.pth.absolute_waypoints[0], path.pth.absolute_waypoints[1]).length
            + LinearSegment(path.pth.absolute_waypoints[1], path.pth.absolute_waypoints[2]).length

\* C12: after calculate returned Working, at_time reports for a disabled axis
\* its current_position at every time, up to the duration and after it.
C12_DisabledHoldsPosition ==
    (data = "ProfileTrajectory" /\ call.n > 0 /\ call.result = Working)
    => \A dof \in Dofs, t \in Times \cup {duration + 1} :
          ~call.args.inp.enabled[dof] =>
              ProfileAtTimeAxis(profiles[dof], duration, t).p
              = call.args.inp.current_position[dof]

\* C13: after a later calculate call that returned Working, at_time returns
\* at every time what it returns on a fresh trajectory that received the same
\* input: nothing of the earlier calls is left.
C13_NoStateAcrossCalls ==
    (data = "ProfileTrajectory" /\ call.n > 1 /\ call.result = Working)
    => \A t \in Times :
          ProfileAtTime(profiles, duration, t)
          = ProfileAtTime(ProfileCalculate([d \in Dofs |-> DefaultProfile], 0, call.args.inp,
                                           call.args.delta_time,
                                           call.args.return_error_at_maximal_duration).profiles,
                          duration, t)

\* C14: for every arc length s, before the start, on the path and after the
\* end, find_index gives an index within 0 .. M - 1 (M the number of
\* segments), so that q(s) reads inside segments and cumulative_lengths.
C14_IndexClamped ==
    (path.status = "built" /\ path.asked)
    => path.index \in 0 .. (Len(path.pth.segments) - 1)

\* C15: an enabled axis other than the limiting one is left at the p_min of
\* its block when calculate returns Working under Synchronization::None (with
\* any duration, 0 included) or under TimeIfNecessary with a positive duration
\* and a target at rest (velocity and acceleration 0); whatever the call
\* returns, Step2 was not run for such an axis.
C15_LeftAtPMin ==
    (data = "ProfileTrajectory" /\ call.n > 0 /\ call.synchronized)
    => \A dof \in Dofs :
          (/\ call.args.inp.enabled[dof]
           /\ dof # call.limiting_dof
           /\ \/ call.args.inp.synchronization = None
              \/ /\ call.args.inp.synchronization = TimeIfNecessary
                 /\ duration > 0
                 /\ call.args.inp.target_velocity[dof] = 0
                 /\ call.args.inp.target_acceleration[dof] = 0)
          => /\ dof \notin call.step2
             /\ call.result = Working => dof \in call.at_p_min

\* Under TimeIfNecessary an axis with a target at rest that is done before the
\* duration, and under None a trajectory of duration 0 with two enabled axes.
C15_Witness ==
    /\ data = "ProfileTrajectory"
    /\ call.n > 0
    /\ call.result = Working
    /\ call.args.inp.synchronization = TimeIfNecessary
    /\ duration > 0
    /\ \E dof \in Dofs :
          /\ call.args.inp.enabled[dof]
          /\ dof # call.limiting_dof
          /\ call.args.inp.target_velocity[dof] = 0
          /\ call.args.inp.target_acceleration[dof] = 0
          /\ dof \in call.at_p_min
          /\ profiles[dof].t_sum[6] < duration

\* The brake output of an axis of the last call, the state a segment of the
\* prelude starts in, and what the profile stores for that segment.
BrakeOf(inp, dof) ==
    PositionBrake(inp.current_velocity[dof], inp.current_acceleration[dof],
                  inp.max_velocity[dof], MinVelocity(inp, dof),
                  inp.max_acceleration[dof], MinAcceleration(inp, dof), inp.max_jerk[dof])

CurrentState(inp, dof) ==
    State(inp.current_position[dof], inp.current_velocity[dof], inp.current_acceleration[dof])

SegmentStart(inp, dof, i) ==
    IF i = 0 THEN CurrentState(inp, dof)
    ELSE Integrate(BrakeOf(inp, dof).t_brakes[0], inp.current_position[dof],
                   inp.current_velocity[dof], inp.current_acceleration[dof],
                   BrakeOf(inp, dof).j_brakes[0])

StoredStart(p, i) == State(p.p_brakes[i], p.v_brakes[i], p.a_brakes[i])

\* C16: for an enabled axis of the last call, whatever the brake output
\* (t_brakes[0] = 0 with t_brakes[1] > 0 included): the start state handed to
\* Step1 is the current state integrated through both brake segments, the
\* profile stores the start state of every segment of positive duration, and
\* when the call returned Working at_time reports the current state at t = 0
\* and the start state of Step1 at t = t_brake.
C16_BrakePrelude ==
    (data = "ProfileTrajectory" /\ call.n > 0)
    => \A dof \in Dofs :
          (/\ call.args.inp.enabled[dof]
           /\ \A failed \in call.step1_failed : dof <= failed)
          => /\ BrakeAxis(call.args.inp, dof, profiles[dof]).s
                = AfterBrake(CurrentState(call.args.inp, dof), BrakeOf(call.args.inp, dof))
             /\ \A i \in {0, 1} :
                   BrakeOf(call.args.inp, dof).t_brakes[i] > 0
                   => StoredStart(profiles[dof], i) = SegmentStart(call.args.inp, dof, i)
             /\ (call.result = Working /\ profiles[dof].t_brake.val <= duration)
                => /\ ProfileAtTimeAxis(profiles[dof], duration, 0)
                      = CurrentState(call.args.inp, dof)
                   /\ ProfileAtTimeAxis(profiles[dof], duration, profiles[dof].t_brake.val)
                      = AfterBrake(CurrentState(call.args.inp, dof), BrakeOf(call.args.inp, dof))
====
